---------------------------- MODULE Spec2Model ----------------------------
(***************************************************************************)
(* Model of the AppExchange Demo Kit orchestrator (helpers/adk-helper.ts,  *)
(* class AppxDemoProject) and of the Git helper (helpers/git-helper.ts).   *)
(*                                                                         *)
(* JavaScript values are records [t |-> typeof, v |-> rendering], where v  *)
(* is the text a template literal `${x}` produces for the value.           *)
(***************************************************************************)
EXTENDS Integers, Sequences, FiniteSets, TLC

(***************************************************************************)
(* Bounds of the model.                                                    *)
(***************************************************************************)
\* Number of validateDemo/deployDemo calls made on one orchestrator instance.
MaxCalls == 2
\* Largest delay, in seconds, asked of isGitRemoteEmptyAsync; the clock of a
\* call is followed for one second more.
MaxWait == 2
\* Largest number of groups in the loaded sequence file.
MaxGroups == 2
\* Deepest directory, in path segments, a helper call is followed into.
MaxDepth == 3

(***************************************************************************)
(* JavaScript values.                                                      *)
(***************************************************************************)
JsStr(s)    == [t |-> "string", v |-> s]
JsTrue      == [t |-> "boolean", v |-> "true"]
JsFalse     == [t |-> "boolean", v |-> "false"]
JsNull      == [t |-> "object", v |-> "null"]
JsUndefined == [t |-> "undefined", v |-> "undefined"]

\* typeof x
TypeOf(x) == x.t

\* `${x}`: the string a template literal renders for x.
TemplateStr(x) == [t |-> "string", v |-> x.v]

(***************************************************************************)
(* enum INTENT (../enums), and a value outside of the enumeration.         *)
(***************************************************************************)
NOT_SPECIFIED  == "NOT_SPECIFIED"
DEPLOY_DEMO    == "DEPLOY_DEMO"
HEALTH_CHECK   == "HEALTH_CHECK"
REPAIR_PROJECT == "REPAIR_PROJECT"
VALIDATE_DEMO  == "VALIDATE_DEMO"
UNRECOGNIZED   == "UNRECOGNIZED"

EnumIntents == {NOT_SPECIFIED, DEPLOY_DEMO, HEALTH_CHECK, REPAIR_PROJECT, VALIDATE_DEMO}
AnyIntent   == EnumIntents \cup {UNRECOGNIZED}

(***************************************************************************)
(* Errors, by the stable prefix of their message.                          *)
(***************************************************************************)
NoError                      == "none"
ERROR_SEQUENCE_RUNNING       == "ERROR_SEQUENCE_RUNNING"
ERROR_INTENT_NOT_IMPLEMENTED == "ERROR_INTENT_NOT_IMPLEMENTED"
ERROR_UNKNOWN_INTENT         == "ERROR_UNKNOWN_INTENT"
ERROR_INVALID_INTENT         == "ERROR_INVALID_INTENT"
ERROR_INVALID_CONFIG         == "ERROR_INVALID_CONFIG"
ERROR_CONFIG_NOT_FOUND       == "ERROR_CONFIG_NOT_FOUND"
TypeError                    == "TypeError"
\* A rejection of the external readConfigFile / SfdxCommandSequence.execute.
ReadConfigFileError          == "readConfigFile rejected"
ExecuteError                 == "execute rejected"

VARIABLES
    executionIntent,    \* AppxDemoProject.executionIntent
    executingSequence,  \* AppxDemoProject.executingSequence
    localConfig,        \* AppxDemoProject.context.config.local
    seqFile,            \* the sequence description file on disk
    calls,              \* the validateDemo/deployDemo calls made on the instance
    lastSetIntent,      \* the latest invocation of setIntent
    resolveCall,        \* the call of AppxDemoProject.resolve that makes the instance
    projectConfig,      \* AppxDemoProject.context.config.project
    probe,              \* the isGitRemoteEmptyAsync call in flight
    asyncSeen,          \* what isGitRemoteEmptyAsync settled with, per probe outcome
    syncSeen,           \* what isGitRemoteEmpty returned, per probe outcome
    syncTypeError,      \* isGitRemoteEmpty has thrown its TypeError
    shellCwd,           \* the working directory of the shell (and of the process)
    git                 \* the call of the local repository helper being run

resolveVars == <<resolveCall, projectConfig>>
orchVars  == <<executionIntent, executingSequence, localConfig, seqFile, calls, lastSetIntent,
               resolveVars>>
probeVars == <<probe, asyncSeen, syncSeen, syncTypeError>>
gitVars   == <<shellCwd, git>>
vars == <<orchVars, probeVars, gitVars>>

Calls == 1..MaxCalls

(***************************************************************************)
(* The local developer configuration: the aliases are not validated by     *)
(* the constructor (finalValidation is empty), so one may be absent.       *)
(***************************************************************************)
LocalConfigs ==
    { [devHubAlias |-> JsStr("hub"), demoValidationOrgAlias |-> JsStr("val-org"),
       demoDeploymentOrgAlias |-> JsStr("dep-org")],
      [devHubAlias |-> JsStr("hub"), demoValidationOrgAlias |-> JsStr("one-org"),
       demoDeploymentOrgAlias |-> JsStr("one-org")],
      [devHubAlias |-> JsStr("hub"), demoValidationOrgAlias |-> JsUndefined,
       demoDeploymentOrgAlias |-> JsStr("dep-org")] }

(***************************************************************************)
(* Sequence description files.  A group is loaded with its own steps.      *)
(***************************************************************************)
LoadedStep(n) ==
    [action |-> "install-package",
     options |-> [scratchOrgAlias |-> JsUndefined, scratchDefJson |-> JsUndefined],
     stepName |-> JsStr("step")]

LoadedGroup(n) ==
    [groupId |-> n, groupName |-> "Configured Group", sequenceSteps |-> <<LoadedStep(n)>>]

LoadedGroups(k) == [i \in 1..k |-> LoadedGroup(i)]

RebuildOptionValues == {JsTrue, JsFalse, JsUndefined, JsStr("yes")}
ScratchDefValues    == {JsStr("demo-scratch-def.json"), JsUndefined}

NoOptions == [rebuildValidationOrg |-> JsUndefined, scratchDefJson |-> JsUndefined]

SeqFiles ==
    { [groupsIsArray |-> TRUE, sequenceGroups |-> LoadedGroups(k), hasOptions |-> TRUE,
       options |-> [rebuildValidationOrg |-> r, scratchDefJson |-> s]] :
         k \in 0..MaxGroups, r \in RebuildOptionValues, s \in ScratchDefValues }
    \cup
    { [groupsIsArray |-> FALSE, sequenceGroups |-> <<>>, hasOptions |-> TRUE,
       options |-> [rebuildValidationOrg |-> r, scratchDefJson |-> JsUndefined]] :
         r \in {JsTrue, JsFalse} }
    \cup
    { [groupsIsArray |-> TRUE, sequenceGroups |-> LoadedGroups(k), hasOptions |-> FALSE,
       options |-> NoOptions] : k \in {0, 1} }

(***************************************************************************)
(* AppxDemoProject.setIntent: the state it leaves and the error it throws. *)
(***************************************************************************)
\* The switch over the requested intent without its case for DEPLOY_DEMO.
IntentSwitch_NoDeployCase(intent) ==
    CASE intent = HEALTH_CHECK   -> ERROR_INTENT_NOT_IMPLEMENTED
      [] intent = REPAIR_PROJECT -> ERROR_INTENT_NOT_IMPLEMENTED
      [] intent = VALIDATE_DEMO  -> NoError
      [] OTHER                   -> ERROR_UNKNOWN_INTENT

\* The error of the switch over the requested intent.
IntentSwitch_RepairAccepted(intent) ==
    CASE intent = DEPLOY_DEMO    -> NoError
      [] intent = HEALTH_CHECK   -> ERROR_INTENT_NOT_IMPLEMENTED
      [] intent = REPAIR_PROJECT -> NoError
      [] intent = VALIDATE_DEMO  -> NoError
      [] OTHER                   -> ERROR_UNKNOWN_INTENT

IntentSwitch(intent) ==
    CASE intent = DEPLOY_DEMO    -> NoError
      [] intent = HEALTH_CHECK   -> ERROR_INTENT_NOT_IMPLEMENTED
      [] intent = REPAIR_PROJECT -> ERROR_INTENT_NOT_IMPLEMENTED
      [] intent = VALIDATE_DEMO  -> NoError
      [] OTHER                   -> ERROR_UNKNOWN_INTENT

\* setIntent without the assignment of the in-progress flag.
setIntent_FlagStaysClear(executing, current, intent) ==
    IF executing = TRUE
    THEN [executing |-> executing, intent |-> current, err |-> ERROR_SEQUENCE_RUNNING]
    ELSE [executing |-> executing, intent |-> intent, err |-> IntentSwitch(intent)]

\* setIntent with the intent assigned before the in-progress test.
setIntent_AssignsFirst(executing, current, intent) ==
    IF executing = TRUE
    THEN [executing |-> executing, intent |-> intent, err |-> ERROR_SEQUENCE_RUNNING]
    ELSE [executing |-> TRUE, intent |-> intent, err |-> IntentSwitch(intent)]

setIntent(executing, current, intent) ==
    IF executing = TRUE
    THEN [executing |-> executing, intent |-> current, err |-> ERROR_SEQUENCE_RUNNING]
    ELSE [executing |-> TRUE, intent |-> intent, err |-> IntentSwitch(intent)]

\* The record kept of an invocation of setIntent.
SetIntentRecord(executing, current, intent) ==
    LET r == setIntent(executing, current, intent)
    IN  [called |-> TRUE, requested |-> intent, wasExecuting |-> executing,
         intentBefore |-> current, intentAfter |-> r.intent,
         executingAfter |-> r.executing, err |-> r.err]

NoSetIntent ==
    [called |-> FALSE, requested |-> NOT_SPECIFIED, wasExecuting |-> FALSE,
     intentBefore |-> NOT_SPECIFIED, intentAfter |-> NOT_SPECIFIED,
     executingAfter |-> FALSE, err |-> NoError]

(***************************************************************************)
(* AppxDemoProject.getDefaultSequenceContext and the target selection of   *)
(* deployDemo.                                                             *)
(***************************************************************************)
getDefaultSequenceContext ==
    [devHubAlias |-> localConfig.devHubAlias,
     targetOrgAlias |-> JsNull,
     targetIsScratchOrg |-> JsNull]

\* The switch with the DEPLOY_DEMO case leaving the scratch flag at its default.
SelectTarget_NoScratchFlag(intent, ctx) ==
    CASE intent = VALIDATE_DEMO ->
           [err |-> NoError,
            ctx |-> [ctx EXCEPT !.targetOrgAlias = localConfig.demoValidationOrgAlias,
                                !.targetIsScratchOrg = JsTrue]]
      [] intent = DEPLOY_DEMO ->
           [err |-> NoError,
            ctx |-> [ctx EXCEPT !.targetOrgAlias = localConfig.demoDeploymentOrgAlias]]
      [] OTHER -> [err |-> ERROR_INVALID_INTENT, ctx |-> ctx]

\* The switch over the active intent: the context, or ERROR_INVALID_INTENT.
SelectTarget(intent, ctx) ==
    CASE intent = VALIDATE_DEMO ->
           [err |-> NoError,
            ctx |-> [ctx EXCEPT !.targetOrgAlias = localConfig.demoValidationOrgAlias,
                                !.targetIsScratchOrg = JsTrue]]
      [] intent = DEPLOY_DEMO ->
           [err |-> NoError,
            ctx |-> [ctx EXCEPT !.targetOrgAlias = localConfig.demoDeploymentOrgAlias,
                                !.targetIsScratchOrg = JsFalse]]
      [] OTHER -> [err |-> ERROR_INVALID_INTENT, ctx |-> ctx]

\* deployDemo setting its intent on every call.
IntentNotSet_Always(intent) == TRUE

\* deployDemo's test: the execution intent was not already set.
IntentNotSet(intent) == intent = NOT_SPECIFIED

(***************************************************************************)
(* deployDemo up to its first suspension point (await readConfigFile),     *)
(* entered with the given in-progress flag and intent.                     *)
(***************************************************************************)
deployDemoEntry(executing, intent) ==
    LET defaulted == IntentNotSet(intent)
        s    == IF defaulted
                THEN setIntent(executing, intent, DEPLOY_DEMO)
                ELSE [executing |-> executing, intent |-> intent, err |-> NoError]
        sel  == SelectTarget(s.intent, getDefaultSequenceContext)
    IN  [executing |-> s.executing,
         intent    |-> s.intent,
         err       |-> IF s.err # NoError THEN s.err ELSE sel.err,
         ctx       |-> IF s.err # NoError THEN getDefaultSequenceContext ELSE sel.ctx,
         seenIntent |-> intent,
         setIntentCalled |-> defaulted]

(***************************************************************************)
(* validateDemoBuildConfig                                                 *)
(***************************************************************************)
validateDemoBuildConfig(seq) ==
    IF seq.groupsIsArray = FALSE THEN ERROR_INVALID_CONFIG
    ELSE IF Len(seq.sequenceGroups) < 1 THEN ERROR_INVALID_CONFIG
    ELSE NoError

(***************************************************************************)
(* deployDemo after the sequence is loaded: the coercion of                *)
(* rebuildValidationOrg and the rebuild group.                             *)
(***************************************************************************)
CoerceRebuild_OnlyAbsent(options) ==
    IF TypeOf(options.rebuildValidationOrg) = "undefined"
    THEN [options EXCEPT !.rebuildValidationOrg = JsTrue]
    ELSE options

CoerceRebuild(options) ==
    IF TypeOf(options.rebuildValidationOrg) # "boolean"
    THEN [options EXCEPT !.rebuildValidationOrg = JsTrue]
    ELSE options

RebuildStep(name, action, ctx, options) ==
    [action |-> action,
     options |-> [scratchOrgAlias |-> TemplateStr(ctx.targetOrgAlias),
                  scratchDefJson  |-> TemplateStr(options.scratchDefJson)],
     stepName |-> JsStr(name)]

rebuildScratchOrgSequenceGroup(ctx, options) ==
    [groupId |-> 0,
     groupName |-> "Refresh Scratch Org",
     sequenceSteps |->
        << RebuildStep("Delete Old Demo Validation Org", "delete-scratch-org", ctx, options),
           RebuildStep("Create New Demo Validation Org", "create-scratch-org", ctx, options) >>]

\* The rebuild condition without the test of the intent.
ShouldRebuild_AnyIntent(intent, options) ==
    options.rebuildValidationOrg = JsTrue

\* The condition under which the rebuild group is inserted.
ShouldRebuild(intent, options) ==
    intent = VALIDATE_DEMO /\ options.rebuildValidationOrg = JsTrue

\* push instead of unshift.
Unshift_Appends(groups, g) == groups \o <<g>>

\* Array.prototype.unshift
Unshift(groups, g) == <<g>> \o groups

\* The sequence handed to new SfdxCommandSequence, for a valid loaded sequence.
AssembleSequence(seq, intent, ctx) ==
    LET options == CoerceRebuild(seq.options)
    IN  [options |-> options,
         sequenceGroups |->
            IF ShouldRebuild(intent, options)
            THEN Unshift(seq.sequenceGroups, rebuildScratchOrgSequenceGroup(ctx, options))
            ELSE seq.sequenceGroups]

\* The error, if any, of deployDemo between the load and the executor.
AfterLoadError_OptionsFirst(seq) ==
    IF ~seq.hasOptions THEN TypeError
    ELSE IF validateDemoBuildConfig(seq) # NoError THEN validateDemoBuildConfig(seq)
    ELSE NoError

AfterLoadError(seq) ==
    IF validateDemoBuildConfig(seq) # NoError THEN validateDemoBuildConfig(seq)
    ELSE IF ~seq.hasOptions THEN TypeError
    ELSE NoError

(***************************************************************************)
(* The project-level configuration (plugins.sfdxFalcon.appxDemo of         *)
(* sfdx-project.json) and validateAppxDemoConfig.                          *)
(***************************************************************************)
\* The required settings, in the order in which they are tested.
RequiredFields ==
    <<"demoAlias", "demoConfig", "demoTitle", "demoType", "demoVersion",
      "gitHubUrl", "gitRemoteUri", "partnerAlias", "partnerName", "schemaVersion">>

FieldNames == {RequiredFields[i] : i \in 1..Len(RequiredFields)}

\* A setting that is present: its text is its own name, so that no two
\* settings hold the same value.
Configured(f) == IF f = "demoConfig" THEN JsStr("demo-config.json") ELSE JsStr(f)

\* What a setting may hold: its value, the empty string, or nothing.
FieldValues(f) ==
    IF f \in {"demoAlias", "demoConfig", "schemaVersion"}
    THEN {Configured(f), JsStr(""), JsUndefined}
    ELSE IF f \in {"demoTitle", "demoVersion", "gitRemoteUri", "partnerName"}
    THEN {Configured(f), JsStr("")}
    ELSE {Configured(f), JsUndefined}

ProjectConfigs ==
    [demoAlias    : FieldValues("demoAlias"),    demoConfig    : FieldValues("demoConfig"),
     demoTitle    : FieldValues("demoTitle"),    demoType      : FieldValues("demoType"),
     demoVersion  : FieldValues("demoVersion"),  gitHubUrl     : FieldValues("gitHubUrl"),
     gitRemoteUri : FieldValues("gitRemoteUri"), partnerAlias  : FieldValues("partnerAlias"),
     partnerName  : FieldValues("partnerName"),  schemaVersion : FieldValues("schemaVersion")]

ValidProjectConfig == [f \in FieldNames |-> Configured(f)]
NoProjectConfig    == [f \in FieldNames |-> JsUndefined]
NoLocalConfig      == [devHubAlias |-> JsUndefined, demoValidationOrgAlias |-> JsUndefined,
                       demoDeploymentOrgAlias |-> JsUndefined]

\* !x, for the values a setting or the override may hold.
Falsy(x) ==
    \/ TypeOf(x) = "undefined"
    \/ x = JsNull
    \/ x = JsFalse
    \/ (TypeOf(x) = "string" /\ x.v = "")

\* validateAppxDemoConfig reporting the first missing setting only.
validateAppxDemoConfig_FirstOnly(cfg) ==
    LET missing == SelectSeq(RequiredFields, LAMBDA f : Falsy(cfg[f]))
    IN  IF missing = <<>> THEN <<>> ELSE <<Head(missing)>>

\* validateAppxDemoConfig: invalidConfigKeys; the empty list stands for `true`.
validateAppxDemoConfig(cfg) == SelectSeq(RequiredFields, LAMBDA f : Falsy(cfg[f]))

(***************************************************************************)
(* AppxDemoProject.resolve(projectDirectory, demoConfigOverride = '').      *)
(***************************************************************************)
OverrideArgs == {JsStr("alt-config.json"), JsStr(""), JsUndefined}

\* demoConfigOverride:string = ''
DefaultOverride(arg) == IF TypeOf(arg) = "undefined" THEN JsStr("") ELSE arg

\* if (demoConfigOverride) appxDemoProjectConfig.demoConfig = demoConfigOverride
ApplyOverride(cfg, override) ==
    IF Falsy(override) THEN cfg ELSE [cfg EXCEPT !["demoConfig"] = override]

\* The project configuration the constructor finds in sfdxProjectConfig, had
\* the override been written to a copy of it.
ConstructedProject_FromCopy(cfg, override) == cfg

\* The project configuration the constructor finds in sfdxProjectConfig:
\* the very object to which resolve has written the override.
ConstructedProject(cfg, override) == ApplyOverride(cfg, override)

\* resolve with the completeness check ahead of the test for the local file.
resolve_ChecksProjectFirst(cfg, overrideArg, localFileExists, localFile) ==
    LET override == DefaultOverride(overrideArg)
        keys     == validateAppxDemoConfig(cfg)
    IN  IF keys # <<>>
        THEN [pc |-> "threw", err |-> ERROR_INVALID_CONFIG, keys |-> keys,
              project |-> NoProjectConfig, local |-> NoLocalConfig]
        ELSE IF localFileExists = FALSE
        THEN [pc |-> "threw", err |-> ERROR_CONFIG_NOT_FOUND, keys |-> <<>>,
              project |-> NoProjectConfig, local |-> NoLocalConfig]
        ELSE [pc |-> "resolved", err |-> NoError, keys |-> <<>>,
              project |-> ConstructedProject(cfg, override), local |-> localFile]

\* resolve, from the outcomes of what it awaits.
resolve(cfg, overrideArg, localFileExists, localFile) ==
    LET override == DefaultOverride(overrideArg)
        keys     == validateAppxDemoConfig(cfg)
    IN  IF localFileExists = FALSE
        THEN [pc |-> "threw", err |-> ERROR_CONFIG_NOT_FOUND, keys |-> <<>>,
              project |-> NoProjectConfig, local |-> NoLocalConfig]
        ELSE IF keys # <<>>
        THEN [pc |-> "threw", err |-> ERROR_INVALID_CONFIG, keys |-> keys,
              project |-> NoProjectConfig, local |-> NoLocalConfig]
        ELSE [pc |-> "resolved", err |-> NoError, keys |-> <<>>,
              project |-> ConstructedProject(cfg, override), local |-> localFile]

\* The resolve call that made the instance of the other specifications.
ResolvedCall ==
    [pc |-> "resolved", err |-> NoError, keys |-> <<>>,
     configured |-> ValidProjectConfig, override |-> JsUndefined,
     localFileExists |-> TRUE, localFile |-> NoLocalConfig]

(***************************************************************************)
(* The calls made on the instance.                                         *)
(***************************************************************************)
NothingHanded == [options |-> NoOptions, sequenceGroups |-> <<>>]

IdleCall ==
    [op |-> "none", pc |-> "idle", err |-> NoError,
     entered |-> FALSE, passedGuard |-> FALSE, seenIntent |-> NOT_SPECIFIED, ranIntent |-> NOT_SPECIFIED,
     admitted |-> FALSE, ctx |-> [devHubAlias |-> JsNull, targetOrgAlias |-> JsNull,
                                  targetIsScratchOrg |-> JsNull],
     invoked |-> FALSE, execIntent |-> NOT_SPECIFIED, handed |-> NothingHanded,
     configFile |-> JsUndefined]

\* Calls are numbered in the order in which they are made.
MayStart(c) ==
    /\ resolveCall.pc = "resolved"
    /\ calls[c].pc = "idle"
    /\ IF c = 1 THEN TRUE ELSE calls[c - 1].pc # "idle"

\* The call record after deployDemo ran to its first suspension point.
EnteredCall(op, e) ==
    [IdleCall EXCEPT !.op = op,
                     !.pc = IF e.err = NoError THEN "loading" ELSE "threw",
                     !.err = e.err,
                     !.entered = TRUE,
                     !.passedGuard = (e.setIntentCalled /\ e.err # ERROR_SEQUENCE_RUNNING),
                     !.seenIntent = e.seenIntent,
                     !.ranIntent = e.intent,
                     !.admitted = (e.err = NoError),
                     !.ctx = e.ctx,
                     !.configFile = IF e.err = NoError THEN projectConfig["demoConfig"]
                                    ELSE JsUndefined]

OrchInit ==
    /\ executionIntent = NOT_SPECIFIED
    /\ executingSequence = FALSE
    /\ localConfig \in LocalConfigs
    /\ seqFile \in SeqFiles
    /\ calls = [c \in Calls |-> IdleCall]
    /\ lastSetIntent = NoSetIntent
    /\ resolveCall = ResolvedCall
    /\ projectConfig = ValidProjectConfig

(***************************************************************************)
(* validateDemo(): setIntent(VALIDATE_DEMO), then deployDemo().            *)
(***************************************************************************)
ValidateDemo(c) ==
    /\ MayStart(c)
    /\ LET r == setIntent(executingSequence, executionIntent, VALIDATE_DEMO)
           e == deployDemoEntry(r.executing, r.intent)
       IN  IF r.err # NoError
           THEN /\ executingSequence' = r.executing
                /\ executionIntent' = r.intent
                /\ calls' = [calls EXCEPT ![c] =
                       [IdleCall EXCEPT !.op = "validateDemo", !.pc = "threw", !.err = r.err]]
                /\ lastSetIntent' =
                       SetIntentRecord(executingSequence, executionIntent, VALIDATE_DEMO)
           ELSE /\ executingSequence' = e.executing
                /\ executionIntent' = e.intent
                /\ calls' = [calls EXCEPT ![c] =
                       [EnteredCall("validateDemo", e) EXCEPT !.passedGuard = TRUE]]
                /\ lastSetIntent' =
                       IF e.setIntentCalled
                       THEN SetIntentRecord(r.executing, r.intent, DEPLOY_DEMO)
                       ELSE SetIntentRecord(executingSequence, executionIntent, VALIDATE_DEMO)
    /\ UNCHANGED <<localConfig, seqFile>>
    /\ UNCHANGED <<resolveVars, probeVars, gitVars>>

(***************************************************************************)
(* deployDemo(), called directly, up to await readConfigFile.              *)
(***************************************************************************)
DeployDemo(c) ==
    /\ MayStart(c)
    /\ LET e == deployDemoEntry(executingSequence, executionIntent)
       IN  /\ executingSequence' = e.executing
           /\ executionIntent' = e.intent
           /\ calls' = [calls EXCEPT ![c] = EnteredCall("deployDemo", e)]
           /\ lastSetIntent' =
                  IF e.setIntentCalled
                  THEN SetIntentRecord(executingSequence, executionIntent, DEPLOY_DEMO)
                  ELSE lastSetIntent
    /\ UNCHANGED <<localConfig, seqFile>>
    /\ UNCHANGED <<resolveVars, probeVars, gitVars>>

(***************************************************************************)
(* readConfigFile settles; deployDemo resumes and runs to                  *)
(* await sfdxCommandSequence.execute().                                    *)
(***************************************************************************)
SequenceLoaded(c) ==
    /\ calls[c].pc = "loading"
    /\ \E loadOk \in BOOLEAN :
         calls' = [calls EXCEPT ![c] =
            IF ~loadOk
            THEN [@ EXCEPT !.pc = "threw", !.err = ReadConfigFileError]
            ELSE IF AfterLoadError(seqFile) # NoError
            THEN [@ EXCEPT !.pc = "threw", !.err = AfterLoadError(seqFile)]
            ELSE [@ EXCEPT !.pc = "executing",
                           !.invoked = TRUE,
                           !.execIntent = executionIntent,
                           !.handed = AssembleSequence(seqFile, executionIntent, calls[c].ctx)]]
    /\ UNCHANGED <<executionIntent, executingSequence, localConfig, seqFile, lastSetIntent>>
    /\ UNCHANGED <<resolveVars, probeVars, gitVars>>

(***************************************************************************)
(* The external executor settles; deployDemo returns its status report.    *)
(***************************************************************************)
ExecuteSettled(c) ==
    /\ calls[c].pc = "executing"
    /\ \E execOk \in BOOLEAN :
         calls' = [calls EXCEPT ![c] =
            IF execOk THEN [@ EXCEPT !.pc = "returned"]
            ELSE [@ EXCEPT !.pc = "threw", !.err = ExecuteError]]
    /\ UNCHANGED <<executionIntent, executingSequence, localConfig, seqFile, lastSetIntent>>
    /\ UNCHANGED <<resolveVars, probeVars, gitVars>>

(***************************************************************************)
(* The private setIntent invoked on its own, with any intent value.        *)
(***************************************************************************)
SetIntentCall(intent) ==
    /\ LET r == setIntent(executingSequence, executionIntent, intent)
       IN  /\ executingSequence' = r.executing
           /\ executionIntent' = r.intent
           /\ lastSetIntent' = SetIntentRecord(executingSequence, executionIntent, intent)
    /\ UNCHANGED <<localConfig, seqFile, calls>>
    /\ UNCHANGED <<resolveVars, probeVars, gitVars>>

(***************************************************************************)
(* git-helper.ts: the remote probe `git ls-remote --exit-code -h <uri>`.   *)
(***************************************************************************)
\* What the shell reports for one run of the probe.
ProbeOutcomes ==
    { [code |-> 0,   stdout |-> "refs/heads/master", stderr |-> ""],
      [code |-> 2,   stdout |-> "", stderr |-> ""],
      [code |-> 128, stdout |-> "", stderr |-> "fatal: repository not found"],
      [code |-> 1,   stdout |-> "", stderr |-> "error"],
      [code |-> 7,   stdout |-> "partial", stderr |-> "unexpected"] }

RemoteUris == {JsStr("https://github.com/my-org/my-repo.git"), JsUndefined}

\* The waitSeconds argument: NaN, or a number of seconds.
WaitArgs == {[nan |-> TRUE, n |-> 0]} \cup {[nan |-> FALSE, n |-> k] : k \in (0 - 1)..MaxWait}

isNaN(w) == w.nan

\* The delay test dropped: the probe is issued at once.
NeedsDelay_Never(w) == FALSE

\* waitSeconds > 0 (false for NaN).
NeedsDelay(w) == ~w.nan /\ w.n > 0

\* shell.config.fatal = true: a synchronous shell.exec throws on a non-zero exit.
ExecThrows(outcome) == outcome.code # 0

\* The switch without its case 128.
ClassifyCode_No128(code) ==
    CASE code = 0   -> [message |-> "Remote repository found", resolve |-> TRUE]
      [] code = 2   -> [message |-> "Remote repository contains no commits", resolve |-> FALSE]
      [] OTHER      -> [message |-> "Unexpected Error", resolve |-> FALSE]

\* The switch over the exit code in the callback of the asynchronous exec.
ClassifyCode(code) ==
    CASE code = 0   -> [message |-> "Remote repository found", resolve |-> TRUE]
      [] code = 2   -> [message |-> "Remote repository contains no commits", resolve |-> FALSE]
      [] code = 128 -> [message |-> "Remote repository not found", resolve |-> FALSE]
      [] OTHER      -> [message |-> "Unexpected Error", resolve |-> FALSE]

\* The returnObject the callback builds.
ReturnObject(outcome) ==
    [code |-> outcome.code, stdout |-> outcome.stdout, stderr |-> outcome.stderr,
     message |-> ClassifyCode(outcome.code).message,
     resolve |-> ClassifyCode(outcome.code).resolve]

NoReturnObject == [code |-> 0 - 1, stdout |-> "", stderr |-> "", message |-> "", resolve |-> FALSE]

\* isGitRemoteEmpty returning true from its catch block.
isGitRemoteEmpty_CatchReturnsTrue(outcome) == TRUE

\* isGitRemoteEmpty: the value returned for a run of the probe.
isGitRemoteEmpty(outcome) == IF ExecThrows(outcome) THEN FALSE ELSE TRUE

IdleProbe ==
    [pc |-> "idle", uri |-> JsUndefined, waitSeconds |-> [nan |-> FALSE, n |-> 0],
     elapsed |-> 0, suspended |-> FALSE, probes |-> 0, issuedAt |-> 0,
     err |-> NoError, value |-> NoReturnObject]

ProbeIdle ==
    /\ probe = IdleProbe
    /\ asyncSeen = {}
    /\ syncSeen = {}
    /\ syncTypeError = FALSE

ProbeSettled == probe.pc \in {"idle", "resolved", "rejected", "threw"}

\* waitASecond(waitSeconds) has resolved.
waitASecond(w, elapsed) == elapsed >= w.n

(***************************************************************************)
(* isGitRemoteEmptyAsync(gitRemoteUri, waitSeconds) up to its first        *)
(* suspension point: the await of waitASecond, or the asynchronous exec.   *)
(***************************************************************************)
AsyncCall(uri, w) ==
    /\ ProbeSettled
    /\ probe' =
         IF TypeOf(uri) # "string" \/ isNaN(w)
         THEN [IdleProbe EXCEPT !.pc = "threw", !.uri = uri, !.waitSeconds = w,
                                !.err = TypeError]
         ELSE IF NeedsDelay(w)
         THEN [IdleProbe EXCEPT !.pc = "waiting", !.uri = uri, !.waitSeconds = w]
         ELSE [IdleProbe EXCEPT !.pc = "probing", !.uri = uri, !.waitSeconds = w,
                                !.probes = 1]
    /\ UNCHANGED <<asyncSeen, syncSeen, syncTypeError, orchVars>>
    /\ UNCHANGED gitVars

\* A second passes while the call is suspended in waitASecond.
Tick ==
    /\ probe.pc = "waiting"
    /\ probe.elapsed <= MaxWait
    /\ probe' = [probe EXCEPT !.elapsed = @ + 1]
    /\ UNCHANGED <<asyncSeen, syncSeen, syncTypeError, orchVars>>
    /\ UNCHANGED gitVars

\* waitASecond resolves; the call resumes and issues the asynchronous exec.
WaitDone ==
    /\ probe.pc = "waiting"
    /\ waitASecond(probe.waitSeconds, probe.elapsed)
    /\ probe' = [probe EXCEPT !.pc = "probing", !.suspended = TRUE,
                              !.probes = @ + 1, !.issuedAt = probe.elapsed]
    /\ UNCHANGED <<asyncSeen, syncSeen, syncTypeError, orchVars>>
    /\ UNCHANGED gitVars

\* The callback of the asynchronous exec: the promise is resolved or rejected.
ProbeCallback(outcome) ==
    /\ probe.pc = "probing"
    /\ LET r == ReturnObject(outcome)
       IN  /\ probe' = [probe EXCEPT !.pc = IF r.resolve THEN "resolved" ELSE "rejected",
                                     !.value = r]
           /\ asyncSeen' = asyncSeen \cup
                  {[outcome |-> outcome, value |-> r,
                    settled |-> IF r.resolve THEN "resolved" ELSE "rejected"]}
    /\ UNCHANGED <<syncSeen, syncTypeError, orchVars>>
    /\ UNCHANGED gitVars

(***************************************************************************)
(* isGitRemoteEmpty(gitRemoteUri), the blocking form.                      *)
(***************************************************************************)
SyncCall(uri, outcome) ==
    /\ ProbeSettled
    /\ IF TypeOf(uri) # "string"
       THEN /\ syncTypeError' = TRUE
            /\ UNCHANGED syncSeen
       ELSE /\ syncSeen' = syncSeen \cup
                   {[outcome |-> outcome, threw |-> ExecThrows(outcome),
                     result |-> isGitRemoteEmpty(outcome)]}
            /\ UNCHANGED syncTypeError
    /\ UNCHANGED <<probe, asyncSeen, orchVars>>
    /\ UNCHANGED gitVars


(***************************************************************************)
(* git-helper.ts: the local repository helpers.  A path is the sequence of *)
(* its tokens: "/" separators, " " blanks and names; a resolved path is    *)
(* the sequence of the names from the root.                                *)
(***************************************************************************)
DirStr(toks) == [t |-> "string", v |-> toks]

DirArgs ==
    { DirStr(<<"/", "w", "/", "a">>),
      DirStr(<<"sub">>),
      DirStr(<<".", "/", "sub", "/", "..", "/", "b">>),
      DirStr(<<" ", " ">>),
      DirStr(<<>>),
      [t |-> "number", v |-> <<"5">>],
      [t |-> "undefined", v |-> <<>>] }

\* targetDirectory:string = '.'
DefaultDir(dir) == IF TypeOf(dir) = "undefined" THEN DirStr(<<".">>) ELSE dir

CloneUris == {JsStr("https://github.com/my-org/my-repo.git"), JsStr(""), JsUndefined}

\* String.prototype.trim
RECURSIVE TrimStart(_)
TrimStart(toks) ==
    IF toks # <<>> /\ Head(toks) = " " THEN TrimStart(Tail(toks)) ELSE toks

RECURSIVE TrimEnd(_)
TrimEnd(toks) ==
    IF toks # <<>> /\ toks[Len(toks)] = " "
    THEN TrimEnd(SubSeq(toks, 1, Len(toks) - 1))
    ELSE toks

Trim(toks) == TrimEnd(TrimStart(toks))

\* path.resolve(path.normalize(p)) against the working directory of the process.
RECURSIVE Walk(_, _)
Walk(base, toks) ==
    IF toks = <<>> THEN base
    ELSE LET h == Head(toks)
         IN  IF h = "/" \/ h = "." THEN Walk(base, Tail(toks))
             ELSE IF h = ".."
             THEN Walk(IF base = <<>> THEN base ELSE SubSeq(base, 1, Len(base) - 1), Tail(toks))
             ELSE Walk(Append(base, h), Tail(toks))

Resolve(cwd, toks) ==
    IF toks # <<>> /\ Head(toks) = "/" THEN Walk(<<>>, toks) ELSE Walk(cwd, toks)

ERROR_UNEXPECTED_TYPE    == "ERROR_UNEXPECTED_TYPE"
ERROR_INVALID_VALUE      == "ERROR_INVALID_VALUE"
ERROR_INVALID_TARGET_DIR == "ERROR_INVALID_TARGET_DIR"
ERROR_NO_TARGET_DIR      == "ERROR_NO_TARGET_DIR"
DestinationNotEmpty      == "Destination path already exists and is not an empty directory"

\* gitClone: the error of its argument validation.
CloneArgError(uri, dir) ==
    IF TypeOf(uri) # "string" \/ TypeOf(dir) # "string" THEN ERROR_UNEXPECTED_TYPE
    ELSE IF Trim(dir.v) = <<>> THEN ERROR_INVALID_VALUE
    ELSE NoError

\* The shell operation gitClone performs at each of its steps.
CloneOp(pc) ==
    CASE pc = "cd1"   -> "cd"
      [] pc = "mkdir" -> "mkdir -p"
      [] pc = "cd2"   -> "cd"
      [] pc = "exec"  -> "git clone"

\* gitClone: where it goes after a shell operation that succeeded or threw.
CloneStep_RetriesAgain(pc, ok) ==
    CASE pc = "cd1"   -> IF ok THEN [pc |-> "exec", err |-> NoError]
                         ELSE [pc |-> "mkdir", err |-> NoError]
      [] pc = "mkdir" -> IF ok THEN [pc |-> "cd2", err |-> NoError]
                         ELSE [pc |-> "threw", err |-> ERROR_INVALID_TARGET_DIR]
      [] pc = "cd2"   -> IF ok THEN [pc |-> "exec", err |-> NoError]
                         ELSE [pc |-> "mkdir", err |-> NoError]
      [] pc = "exec"  -> IF ok THEN [pc |-> "returned", err |-> NoError]
                         ELSE [pc |-> "threw", err |-> DestinationNotEmpty]

CloneStep_ClonesAnyway(pc, ok) ==
    CASE pc = "cd1"   -> IF ok THEN [pc |-> "exec", err |-> NoError]
                         ELSE [pc |-> "mkdir", err |-> NoError]
      [] pc = "mkdir" -> IF ok THEN [pc |-> "cd2", err |-> NoError]
                         ELSE [pc |-> "threw", err |-> ERROR_INVALID_TARGET_DIR]
      [] pc = "cd2"   -> [pc |-> "exec", err |-> NoError]
      [] pc = "exec"  -> IF ok THEN [pc |-> "returned", err |-> NoError]
                         ELSE [pc |-> "threw", err |-> DestinationNotEmpty]

CloneStep(pc, ok) ==
    CASE pc = "cd1"   -> IF ok THEN [pc |-> "exec", err |-> NoError]
                         ELSE [pc |-> "mkdir", err |-> NoError]
      [] pc = "mkdir" -> IF ok THEN [pc |-> "cd2", err |-> NoError]
                         ELSE [pc |-> "threw", err |-> ERROR_INVALID_TARGET_DIR]
      [] pc = "cd2"   -> IF ok THEN [pc |-> "exec", err |-> NoError]
                         ELSE [pc |-> "threw", err |-> ERROR_NO_TARGET_DIR]
      [] pc = "exec"  -> IF ok THEN [pc |-> "returned", err |-> NoError]
                         ELSE [pc |-> "threw", err |-> DestinationNotEmpty]

IdleGit ==
    [fn |-> "none", pc |-> "idle", uri |-> JsUndefined, dir |-> DirStr(<<>>),
     msg |-> JsUndefined, target |-> <<>>, err |-> NoError, errPath |-> <<>>, log |-> <<>>,
     text |-> [t |-> "string", v |-> <<>>], value |-> <<>>]

GitIdle ==
    /\ shellCwd = <<"home">>
    /\ git = IdleGit

\* The helpers are synchronous: a call starts when no other is running.
GitSettled == git.pc \in {"idle", "returned", "threw"}

(***************************************************************************)
(* gitClone(gitRemoteUri, targetDirectory): validation and path resolution.*)
(***************************************************************************)
GitCloneCall(uri, dirArg) ==
    /\ GitSettled
    /\ LET dir == DefaultDir(dirArg)
           e   == CloneArgError(uri, dir)
       IN  IF e # NoError
           THEN git' = [IdleGit EXCEPT !.fn = "gitClone", !.pc = "threw", !.uri = uri,
                                       !.dir = dir, !.err = e]
           ELSE /\ Len(Resolve(shellCwd, dir.v)) <= MaxDepth
                /\ git' = [IdleGit EXCEPT !.fn = "gitClone", !.pc = "cd1", !.uri = uri,
                                          !.dir = dir,
                                          !.target = Resolve(shellCwd, dir.v)]
    /\ UNCHANGED <<shellCwd, orchVars, probeVars>>

\* One shell operation of gitClone, which succeeds or throws.
CloneShell(pc) ==
    /\ \E ok \in BOOLEAN :
         /\ git' = [git EXCEPT !.pc = CloneStep(pc, ok).pc,
                               !.err = CloneStep(pc, ok).err,
                               !.errPath = IF CloneStep(pc, ok).err = DestinationNotEmpty
                                           THEN git.target ELSE <<>>,
                               !.log = Append(@, [op |-> CloneOp(pc), arg |-> git.target,
                                                  cwd |-> shellCwd, ok |-> ok])]
         /\ shellCwd' = IF ok /\ CloneOp(pc) = "cd" THEN git.target ELSE shellCwd
    /\ UNCHANGED <<orchVars, probeVars>>

\* shell.cd(targetDirectory), first attempt.
CloneCd ==
    /\ git.fn = "gitClone"
    /\ git.pc = "cd1"
    /\ CloneShell("cd1")

\* shell.mkdir('-p', targetDirectory)
CloneMkdir ==
    /\ git.fn = "gitClone"
    /\ git.pc = "mkdir"
    /\ CloneShell("mkdir")

\* shell.cd(targetDirectory), after the directory was created.
CloneCdAgain ==
    /\ git.fn = "gitClone"
    /\ git.pc = "cd2"
    /\ CloneShell("cd2")

\* shell.exec(`git clone ${gitRemoteUri}`)
CloneExec ==
    /\ git.fn = "gitClone"
    /\ git.pc = "exec"
    /\ CloneShell("exec")

(***************************************************************************)
(* gitInit, gitAddAndCommit and gitRemoteAddOrigin: validation, then        *)
(* shell.cd(targetDirectory), then the git commands; nothing is caught, so *)
(* a shell operation that throws ends the call.                            *)
(***************************************************************************)
ERROR_INVALID_TYPE == "ERROR_INVALID_TYPE"
\* What shelljs throws for a failed operation while shell.config.fatal is set.
ShellError         == "shell operation failed"

CommitMessages == {JsStr("Initial commit"), JsStr(""), JsUndefined}

\* typeof x !== 'string' || x === '', for a directory and for another string.
NotADirectory(dir) == TypeOf(dir) # "string" \/ dir.v = <<>>
NotAString(x)      == TypeOf(x) # "string" \/ x.v = ""

gitInitArgError(dir) ==
    IF NotADirectory(dir) THEN ERROR_INVALID_TYPE ELSE NoError

gitAddAndCommitArgError(dir, msg) ==
    IF NotADirectory(dir) THEN ERROR_INVALID_TYPE
    ELSE IF NotAString(msg) THEN ERROR_INVALID_TYPE
    ELSE NoError

gitRemoteAddOriginArgError(dir, uri) ==
    IF NotADirectory(dir) THEN ERROR_INVALID_TYPE
    ELSE IF NotAString(uri) THEN ERROR_INVALID_TYPE
    ELSE NoError

\* The commands of gitAddAndCommit in the other order.
HelperCommands_CommitFirst(fn) ==
    CASE fn = "gitInit"            -> <<"git init">>
      [] fn = "gitAddAndCommit"    -> <<"git commit -m", "git add -A">>
      [] fn = "gitRemoteAddOrigin" -> <<"git remote add origin">>

\* The git commands of each helper, in the order in which it runs them.
HelperCommands(fn) ==
    CASE fn = "gitInit"            -> <<"git init">>
      [] fn = "gitAddAndCommit"    -> <<"git add -A", "git commit -m">>
      [] fn = "gitRemoteAddOrigin" -> <<"git remote add origin">>

HelperFns == {"gitInit", "gitAddAndCommit", "gitRemoteAddOrigin"}

\* The record of a helper call after its validation.
HelperEntered(fn, dir, uri, msg, e) ==
    IF e # NoError
    THEN [IdleGit EXCEPT !.fn = fn, !.pc = "threw", !.dir = dir, !.uri = uri, !.msg = msg,
                         !.err = e]
    ELSE [IdleGit EXCEPT !.fn = fn, !.pc = "hcd", !.dir = dir, !.uri = uri, !.msg = msg,
                         !.target = Resolve(shellCwd, dir.v)]

GitInitCall(dir) ==
    /\ GitSettled
    /\ gitInitArgError(dir) = NoError => Len(Resolve(shellCwd, dir.v)) <= MaxDepth
    /\ git' = HelperEntered("gitInit", dir, JsUndefined, JsUndefined, gitInitArgError(dir))
    /\ UNCHANGED <<shellCwd, orchVars, probeVars>>

GitAddAndCommitCall(dir, msg) ==
    /\ GitSettled
    /\ gitAddAndCommitArgError(dir, msg) = NoError => Len(Resolve(shellCwd, dir.v)) <= MaxDepth
    /\ git' = HelperEntered("gitAddAndCommit", dir, JsUndefined, msg,
                            gitAddAndCommitArgError(dir, msg))
    /\ UNCHANGED <<shellCwd, orchVars, probeVars>>

GitRemoteAddOriginCall(dir, uri) ==
    /\ GitSettled
    /\ gitRemoteAddOriginArgError(dir, uri) = NoError =>
           Len(Resolve(shellCwd, dir.v)) <= MaxDepth
    /\ git' = HelperEntered("gitRemoteAddOrigin", dir, uri, JsUndefined,
                            gitRemoteAddOriginArgError(dir, uri))
    /\ UNCHANGED <<shellCwd, orchVars, probeVars>>

\* A helper that goes on to its commands whatever shell.cd did.
AfterHelperCd_IgnoresFailure(ok) == [pc |-> "hexec", err |-> NoError]

\* Where a helper goes after shell.cd returned or threw.
AfterHelperCd(ok) ==
    IF ok THEN [pc |-> "hexec", err |-> NoError] ELSE [pc |-> "threw", err |-> ShellError]

\* shell.cd(targetDirectory) of a helper.
HelperCd ==
    /\ git.fn \in HelperFns
    /\ git.pc = "hcd"
    /\ \E ok \in BOOLEAN :
         /\ git' = [git EXCEPT !.pc = AfterHelperCd(ok).pc,
                               !.err = AfterHelperCd(ok).err,
                               !.log = Append(@, [op |-> "cd", arg |-> git.target,
                                                  cwd |-> shellCwd, ok |-> ok])]
         /\ shellCwd' = IF ok THEN git.target ELSE shellCwd
    /\ UNCHANGED <<orchVars, probeVars>>

\* shell.exec of the next git command of a helper.
HelperExec ==
    /\ git.fn \in HelperFns
    /\ git.pc = "hexec"
    /\ LET cmds == HelperCommands(git.fn)
           k    == Len(git.log)
       IN  \E ok \in BOOLEAN :
             git' = [git EXCEPT !.pc = IF ~ok THEN "threw"
                                       ELSE IF k < Len(cmds) THEN "hexec" ELSE "returned",
                                !.err = IF ok THEN NoError ELSE ShellError,
                                !.log = Append(@, [op |-> cmds[k], arg |-> git.target,
                                                   cwd |-> shellCwd, ok |-> ok])]
    /\ UNCHANGED <<shellCwd, orchVars, probeVars>>

(***************************************************************************)
(* getRepoNameFromUri: strings are sequences of characters here.           *)
(***************************************************************************)
Text(chars) == [t |-> "string", v |-> chars]

RepoUris ==
    { Text(<<"h", "t", "t", "p", "s", ":", "/", "/", "e", "x", "a", "m", "p", "l", "e",
           ".", "c", "o", "m", "/", "o", "r", "g", "/", "m", "y", "-", "r", "e", "p",
           "o", ".", "g", "i", "t">>),
      Text(<<"h", "t", "t", "p", "s", ":", "/", "/", "e", "x", "a", "m", "p", "l", "e",
           ".", "c", "o", "m", "/", ".", "g", "i", "t">>),
      Text(<<"g", "i", "t", "@", "h", ".", "i", "o", ":", "o", "/", "a", "_", "1", ".",
           "g", "i", "t", "/">>),
      Text(<<"/", "r", "-", ".", "g", "i", "t", "/", "/">>),
      Text(<<"m", "y", "-", "r", "e", "p", "o", ".", "g", "i", "t">>),
      Text(<<"h", "t", "t", "p", "s", ":", "/", "/", "e", "x", "a", "m", "p", "l", "e",
           ".", "c", "o", "m", "/", "m", "y", ".", "r", "e", "p", "o", ".", "g", "i",
           "t">>),
      Text(<<"h", "t", "t", "p", "s", ":", "/", "/", "e", "x", "a", "m", "p", "l", "e",
           ".", "c", "o", "m", "/", "r", "e", "p", "o">>),
      Text(<<"h", "t", "t", "p", "s", ":", "/", "/", "h", ".", "i", "o", "/", "a", ".",
           "g", "i", "t", "/", "x">>),
      Text(<<>>),
      [t |-> "undefined", v |-> <<>>] }

\* \w
WordChars ==
    { "a", "b", "c", "d", "e", "f", "g", "h", "i", "j", "k", "l", "m", "n", "o", "p",
      "q", "r", "s", "t", "u", "v", "w", "x", "y", "z", "A", "B", "C", "D", "E", "F",
      "G", "H", "I", "J", "K", "L", "M", "N", "O", "P", "Q", "R", "S", "T", "U", "V",
      "W", "X", "Y", "Z", "0", "1", "2", "3", "4", "5", "6", "7", "8", "9", "_" }

\* (\w|-)
NameChar(ch) == ch \in WordChars \/ ch = "-"

\* repoNameRegEx = /\/(\w|-)+\.git\/*$/ matched with its slash at position i.
RegExMatchesAt(str, i) ==
    /\ str[i] = "/"
    /\ \E j \in (i + 1)..(Len(str) - 4) :
         /\ \A k \in (i + 1)..j : NameChar(str[k])
         /\ SubSeq(str, j + 1, j + 4) = <<".", "g", "i", "t">>
         /\ \A k \in (j + 5)..Len(str) : str[k] = "/"

\* repoNameRegEx.exec(str): the matched text, or null.
repoNameRegExExec(str) ==
    LET starts == {i \in 1..Len(str) : RegExMatchesAt(str, i)}
    IN  IF starts = {} THEN [isNull |-> TRUE, text |-> <<>>]
        ELSE LET first == CHOOSE i \in starts : \A k \in starts : i <= k
             IN  [isNull |-> FALSE, text |-> SubSeq(str, first, Len(str))]

\* str.lastIndexOf(ch), counted from 0; -1 when ch does not occur.
LastIndexOf(str, ch) ==
    LET at == {i \in 1..Len(str) : str[i] = ch}
    IN  IF at = {} THEN -1 ELSE (CHOOSE i \in at : \A k \in at : k <= i) - 1

\* str.substring(0, n) and str.substr(1)
SubstringFrom0(str, n) == IF n <= 0 THEN <<>> ELSE SubSeq(str, 1, n)
Substr1(str)           == SubSeq(str, 2, Len(str))

ERROR_UNREADABLE_REPO_NAME == "ERROR_UNREADABLE_REPO_NAME"
\* The TypeError of reading [0] of null.
NullDereference            == "TypeError: Cannot read property '0' of null"

\* The name getRepoNameFromUri takes out of a regular-expression match.
StripMatch(matched) == Substr1(SubstringFrom0(matched, LastIndexOf(matched, ".")))

getRepoNameFromUri(uri) ==
    IF TypeOf(uri) # "string" THEN [err |-> ERROR_UNEXPECTED_TYPE, value |-> <<>>]
    ELSE LET m == repoNameRegExExec(uri.v)
         IN  IF m.isNull THEN [err |-> NullDereference, value |-> <<>>]
             ELSE IF StripMatch(m.text) = <<>>
             THEN [err |-> ERROR_UNREADABLE_REPO_NAME, value |-> <<>>]
             ELSE [err |-> NoError, value |-> StripMatch(m.text)]

GetRepoNameFromUriCall(uri) ==
    /\ GitSettled
    /\ LET r == getRepoNameFromUri(uri)
       IN  git' = [IdleGit EXCEPT !.fn = "getRepoNameFromUri",
                                  !.pc = IF r.err = NoError THEN "returned" ELSE "threw",
                                  !.text = uri,
                                  !.err = r.err,
                                  !.value = r.value]
    /\ UNCHANGED <<shellCwd, orchVars, probeVars>>

(***************************************************************************)
(* The call of resolve: the instance exists once it has returned.          *)
(***************************************************************************)
ResolveIdle ==
    /\ executionIntent = NOT_SPECIFIED
    /\ executingSequence = FALSE
    /\ localConfig = NoLocalConfig
    /\ seqFile = [groupsIsArray |-> TRUE, sequenceGroups |-> LoadedGroups(1), hasOptions |-> TRUE,
                  options |-> NoOptions]
    /\ calls = [c \in Calls |-> IdleCall]
    /\ lastSetIntent = NoSetIntent
    /\ projectConfig = NoProjectConfig
    /\ \E cfg \in ProjectConfigs, o \in OverrideArgs, x \in BOOLEAN, l \in LocalConfigs :
         resolveCall = [pc |-> "none", err |-> NoError, keys |-> <<>>,
                        configured |-> cfg, override |-> o,
                        localFileExists |-> x, localFile |-> l]

ResolveCall ==
    /\ resolveCall.pc = "none"
    /\ LET r == resolve(resolveCall.configured, resolveCall.override,
                        resolveCall.localFileExists, resolveCall.localFile)
       IN  /\ resolveCall' = [resolveCall EXCEPT !.pc = r.pc, !.err = r.err, !.keys = r.keys]
           /\ projectConfig' = r.project
           /\ localConfig' = r.local
    /\ UNCHANGED <<executionIntent, executingSequence, seqFile, calls, lastSetIntent>>
    /\ UNCHANGED <<probeVars, gitVars>>

(***************************************************************************)
(* Specifications.                                                         *)
(***************************************************************************)
Init == OrchInit /\ ProbeIdle /\ GitIdle

Next ==
    \/ \E c \in Calls : ValidateDemo(c)
    \/ \E c \in Calls : DeployDemo(c)
    \/ \E c \in Calls : SequenceLoaded(c)
    \/ \E c \in Calls : ExecuteSettled(c)

\* The orchestrator driven through its public operations.
Spec == Init /\ [][Next]_vars

NextIntent ==
    \/ Next
    \/ \E intent \in AnyIntent : SetIntentCall(intent)

\* The orchestrator with its private setIntent also invoked directly.
SpecIntent == Init /\ [][NextIntent]_vars

\* One constructed instance, on which nothing is called.
OrchFixed ==
    /\ executionIntent = NOT_SPECIFIED
    /\ executingSequence = FALSE
    /\ localConfig = [devHubAlias |-> JsStr("hub"), demoValidationOrgAlias |-> JsStr("val-org"),
                      demoDeploymentOrgAlias |-> JsStr("dep-org")]
    /\ seqFile = [groupsIsArray |-> TRUE, sequenceGroups |-> LoadedGroups(1), hasOptions |-> TRUE,
                  options |-> NoOptions]
    /\ calls = [c \in Calls |-> IdleCall]
    /\ lastSetIntent = NoSetIntent
    /\ resolveCall = ResolvedCall
    /\ projectConfig = ValidProjectConfig

InitProbe == OrchFixed /\ ProbeIdle /\ GitIdle

NextProbe ==
    \/ \E uri \in RemoteUris, w \in WaitArgs : AsyncCall(uri, w)
    \/ Tick
    \/ WaitDone
    \/ \E outcome \in ProbeOutcomes : ProbeCallback(outcome)
    \/ \E uri \in RemoteUris, outcome \in ProbeOutcomes : SyncCall(uri, outcome)

\* The blocking and the asynchronous classification of a Git remote.
SpecProbe == InitProbe /\ [][NextProbe]_vars

InitGit == OrchFixed /\ ProbeIdle /\ GitIdle

NextGit ==
    \/ \E uri \in CloneUris, dir \in DirArgs : GitCloneCall(uri, dir)
    \/ CloneCd
    \/ CloneMkdir
    \/ CloneCdAgain
    \/ CloneExec
    \/ \E dir \in DirArgs : GitInitCall(dir)
    \/ \E dir \in DirArgs, msg \in CommitMessages : GitAddAndCommitCall(dir, msg)
    \/ \E dir \in DirArgs, uri \in CloneUris : GitRemoteAddOriginCall(dir, uri)
    \/ HelperCd
    \/ HelperExec
    \/ \E uri \in RepoUris : GetRepoNameFromUriCall(uri)

\* The local repository helpers, called one after the other on one shell.
SpecGit == InitGit /\ [][NextGit]_vars

InitResolve == ResolveIdle /\ ProbeIdle /\ GitIdle

NextResolve ==
    \/ ResolveCall
    \/ Next

\* An instance made by resolve, then driven through its public operations.
SpecResolve == InitResolve /\ [][NextResolve]_vars

(***************************************************************************)
(* Properties of the execution intent and of the assembled sequence.       *)
(***************************************************************************)
Admitted == {c \in Calls : calls[c].admitted}
Invoked  == {c \in Calls : calls[c].invoked}

\* C1: whenever setIntent is invoked while the in-progress flag is true, it
\* fails with ERROR_SEQUENCE_RUNNING whatever intent is requested, and the
\* active intent is the one that was active before the call.
C1_SetIntentWhileRunningFails ==
    (lastSetIntent.called /\ lastSetIntent.wasExecuting) =>
        /\ lastSetIntent.err = ERROR_SEQUENCE_RUNNING
        /\ lastSetIntent.intentAfter = lastSetIntent.intentBefore
        /\ executionIntent = lastSetIntent.intentBefore

C1_Witness ==
    /\ lastSetIntent.called
    /\ lastSetIntent.wasExecuting
    /\ lastSetIntent.requested = HEALTH_CHECK
    /\ lastSetIntent.intentBefore = VALIDATE_DEMO

\* C2: on one instance at most one validateDemo/deployDemo call is ever
\* admitted to build a context and to invoke the external executor.
C2_AtMostOneCallAdmitted ==
    /\ Cardinality(Admitted) <= 1
    /\ Cardinality(Invoked) <= 1

\* C3: deployDemo changes the intent only from NOT_SPECIFIED, and only to
\* DEPLOY_DEMO; entered with VALIDATE_DEMO active it leaves the intent alone
\* and runs with VALIDATE_DEMO.
C3_DeployDemoHonoursIntent ==
    \A c \in Calls : calls[c].entered =>
        /\ (calls[c].ranIntent # calls[c].seenIntent =>
               calls[c].seenIntent = NOT_SPECIFIED /\ calls[c].ranIntent = DEPLOY_DEMO)
        /\ (calls[c].seenIntent = VALIDATE_DEMO =>
               /\ calls[c].ranIntent = VALIDATE_DEMO
               /\ calls[c].admitted
               /\ calls[c].ctx.targetIsScratchOrg = JsTrue
               /\ (calls[c].invoked => calls[c].execIntent = VALIDATE_DEMO))

C3_Witness ==
    \E c \in Calls :
        /\ calls[c].op = "deployDemo"
        /\ calls[c].seenIntent = VALIDATE_DEMO
        /\ calls[c].invoked
        /\ calls[c].execIntent = VALIDATE_DEMO
        /\ \E d \in Calls : calls[d].op = "validateDemo" /\ calls[d].seenIntent = VALIDATE_DEMO

C5_RebuildGroupPrepended ==
    \A c \in Calls : (calls[c].invoked /\ calls[c].execIntent = VALIDATE_DEMO) =>
        LET loaded == seqFile.sequenceGroups
            groups == calls[c].handed.sequenceGroups
        IN  IF seqFile.options.rebuildValidationOrg = JsFalse
            THEN groups = loaded
            ELSE /\ Len(groups) = Len(loaded) + 1
                 /\ \A i \in 1..Len(loaded) : groups[i + 1] = loaded[i]
                 /\ Len(groups[1].sequenceSteps) = 2
                 /\ groups[1].sequenceSteps[1].action = "delete-scratch-org"
                 /\ groups[1].sequenceSteps[2].action = "create-scratch-org"
                 /\ \A i \in 1..2 :
                      /\ groups[1].sequenceSteps[i].options.scratchOrgAlias
                            = TemplateStr(calls[c].ctx.targetOrgAlias)
                      /\ groups[1].sequenceSteps[i].options.scratchDefJson
                            = TemplateStr(seqFile.options.scratchDefJson)

C5_Witness ==
    \E c \in Calls :
        /\ calls[c].invoked
        /\ calls[c].execIntent = VALIDATE_DEMO
        /\ seqFile.options.rebuildValidationOrg = JsUndefined
        /\ Len(seqFile.sequenceGroups) = 2
        /\ Len(calls[c].handed.sequenceGroups) = 3

\* C6: with DEPLOY_DEMO active, the groups handed to the executor are the
\* loaded groups, whatever the value of rebuildValidationOrg.
C6_NoRebuildOnDeploy ==
    \A c \in Calls : (calls[c].invoked /\ calls[c].execIntent = DEPLOY_DEMO) =>
        calls[c].handed.sequenceGroups = seqFile.sequenceGroups

C6_Witness ==
    \E c \in Calls :
        /\ calls[c].invoked
        /\ calls[c].execIntent = DEPLOY_DEMO
        /\ seqFile.options.rebuildValidationOrg = JsTrue
        /\ Len(seqFile.sequenceGroups) = 2

(***************************************************************************)
(* Properties of the classification of a Git remote.                       *)
(***************************************************************************)
\* The verdict a settled value of isGitRemoteEmptyAsync expresses.
VerdictOf(value) ==
    CASE value.message = "Remote repository found"               -> "Reachable-With-History"
      [] value.message = "Remote repository contains no commits" -> "Reachable-Empty"
      [] value.message = "Remote repository not found"           -> "Unreachable"
      [] value.message = "Unexpected Error"                      -> "IndeterminateError"
      [] OTHER                                                   -> "none"

\* The verdict the exit-code table gives.
TableVerdict(code) ==
    CASE code = 0   -> "Reachable-With-History"
      [] code = 2   -> "Reachable-Empty"
      [] code = 128 -> "Unreachable"
      [] OTHER      -> "IndeterminateError"

\* C7: the asynchronous form settles with the verdict of the exit-code table
\* (0, 2, 128, any other), values of different verdicts differ, the value
\* carries the exit code, stdout and stderr of the probe unchanged, and the
\* promise is resolved for exit code 0 only.
C7_ExitCodeToVerdict ==
    /\ \A e \in asyncSeen :
         /\ VerdictOf(e.value) = TableVerdict(e.outcome.code)
         /\ e.value.code = e.outcome.code
         /\ e.value.stdout = e.outcome.stdout
         /\ e.value.stderr = e.outcome.stderr
         /\ (e.settled = "resolved" <=> e.outcome.code = 0)
    /\ \A e, f \in asyncSeen :
         TableVerdict(e.outcome.code) # TableVerdict(f.outcome.code) =>
             e.value.message # f.value.message
    /\ (probe.pc \in {"resolved", "rejected"} =>
            [outcome |-> [code |-> probe.value.code, stdout |-> probe.value.stdout,
                          stderr |-> probe.value.stderr],
             value |-> probe.value, settled |-> probe.pc] \in asyncSeen)

C7_Witness ==
    /\ {e.outcome.code : e \in asyncSeen} = {0, 1, 2, 7, 128}
    /\ probe.pc = "rejected"
    /\ probe.value.code = 128

C9_ProbeAfterDelay ==
    /\ probe.probes <= 1
    /\ (probe.pc \in {"probing", "resolved", "rejected"} =>
          /\ probe.probes = 1
          /\ TypeOf(probe.uri) = "string" /\ ~probe.waitSeconds.nan
          /\ (probe.waitSeconds.n > 0 =>
                 probe.suspended /\ probe.issuedAt >= probe.waitSeconds.n)
          /\ (probe.waitSeconds.n <= 0 =>
                 ~probe.suspended /\ probe.issuedAt = 0 /\ probe.elapsed = 0))
    /\ (probe.pc \in {"idle", "waiting", "threw"} => probe.probes = 0)
    /\ (probe.pc = "threw" => (TypeOf(probe.uri) # "string" \/ probe.waitSeconds.nan))

C9_Witness ==
    /\ probe.pc = "resolved"
    /\ probe.waitSeconds.n = 2
    /\ probe.suspended
    /\ probe.issuedAt = 2
    /\ probe.probes = 1

(***************************************************************************)
(* Properties of gitClone.                                                 *)
(***************************************************************************)
CloneLog == IF git.fn = "gitClone" THEN git.log ELSE <<>>

CdAttempts    == {i \in 1..Len(CloneLog) : CloneLog[i].op = "cd"}
MkdirAttempts == {i \in 1..Len(CloneLog) : CloneLog[i].op = "mkdir -p"}
CloneCommands == {i \in 1..Len(CloneLog) : CloneLog[i].op = "git clone"}

\* C10: gitClone first tries to change into the target; it creates the
\* directory only after that change failed, and changes again only after the
\* creation succeeded; a failed creation ends it with
\* ERROR_INVALID_TARGET_DIR and a failed second change with
\* ERROR_NO_TARGET_DIR, in both cases without a clone command; there is no
\* third change and no second creation.
C10_OneRetryOfDirectoryChange ==
    /\ Cardinality(CdAttempts) <= 2
    /\ Cardinality(MkdirAttempts) <= 1
    /\ (CloneLog # <<>> => CloneLog[1].op = "cd")
    /\ \A i \in MkdirAttempts : i = 2 /\ ~CloneLog[1].ok
    /\ \A i \in CdAttempts : i = 1 \/ (i = 3 /\ CloneLog[2].op = "mkdir -p" /\ CloneLog[2].ok)
    /\ \A i \in 1..Len(CloneLog) : CloneLog[i].arg = git.target
    /\ (git.fn = "gitClone" /\ Len(CloneLog) >= 1 /\ ~CloneLog[1].ok /\ git.pc # "mkdir" =>
            2 \in MkdirAttempts)
    /\ \A i \in MkdirAttempts :
         /\ ~CloneLog[i].ok =>
               (git.pc = "threw" /\ git.err = ERROR_INVALID_TARGET_DIR /\ CloneCommands = {})
         /\ (CloneLog[i].ok /\ git.pc # "cd2") => 3 \in CdAttempts
    /\ (3 \in CdAttempts /\ ~CloneLog[3].ok =>
            (git.pc = "threw" /\ git.err = ERROR_NO_TARGET_DIR /\ CloneCommands = {}))
    /\ (git.fn = "gitClone" /\ git.err = ERROR_INVALID_TARGET_DIR =>
            (Len(CloneLog) = 2 /\ ~CloneLog[2].ok))
    /\ (git.fn = "gitClone" /\ git.err = ERROR_NO_TARGET_DIR =>
            (Len(CloneLog) = 3 /\ ~CloneLog[3].ok))

C10_Witness ==
    /\ git.fn = "gitClone"
    /\ git.pc = "threw"
    /\ git.err = ERROR_NO_TARGET_DIR
    /\ Len(git.log) = 3
    /\ git.target = <<"home", "b">>

\* C11: gitClone issues the clone command only directly after a change into
\* the resolved target succeeded (the first change or the retried one), so
\* the command runs with the resolved target as working directory; a clone
\* command that fails ends gitClone with the destination-not-empty error,
\* whose message names the resolved absolute target; and when the first
\* change failed, the creation and the retried change succeeded and the
\* clone command succeeded, gitClone returns without an error.
C11_CloneOnlyInsideTarget ==
    /\ (CloneLog # <<>> => git.target = Resolve(CloneLog[1].cwd, git.dir.v))
    /\ \A i \in CloneCommands :
         /\ i > 1
         /\ CloneLog[i - 1].op = "cd"
         /\ CloneLog[i - 1].ok
         /\ CloneLog[i - 1].arg = git.target
         /\ CloneLog[i].cwd = git.target
         /\ i = Len(CloneLog)
         /\ IF CloneLog[i].ok
            THEN git.pc = "returned" /\ git.err = NoError
            ELSE git.pc = "threw" /\ git.err = DestinationNotEmpty
                                  /\ git.errPath = git.target
    /\ (git.fn = "gitClone" /\ git.err = DestinationNotEmpty =>
            (CloneCommands # {} /\ ~CloneLog[Len(CloneLog)].ok))
    /\ (git.fn = "gitClone" /\ git.pc = "returned" =>
            (CloneCommands # {} /\ CloneLog[Len(CloneLog)].ok))

C11_Witness ==
    /\ git.fn = "gitClone"
    /\ git.pc = "returned"
    /\ Len(git.log) = 4
    /\ ~git.log[1].ok
    /\ git.log[2].op = "mkdir -p"
    /\ git.log[3].op = "cd"
    /\ git.log[4].op = "git clone"
    /\ git.log[1].cwd = <<"home">>
    /\ git.log[4].cwd = <<"home", "b">>
    /\ git.dir.v = <<".", "/", "sub", "/", "..", "/", "b">>

(***************************************************************************)
(* Properties of the sequence validation and of the option coercion.       *)
(***************************************************************************)
\* A call of deployDemo whose sequence file was read.
SequenceRead(c) ==
    /\ calls[c].admitted
    /\ calls[c].pc # "loading"
    /\ calls[c].err # ReadConfigFileError

\* sequenceGroups of the loaded file is not an array, or is an empty one.
NoSequenceGroups == ~seqFile.groupsIsArray \/ Len(seqFile.sequenceGroups) < 1

\* C13: when the loaded sequence has a sequenceGroups that is not a list or
\* is an empty list, deployDemo fails with ERROR_INVALID_CONFIG, whatever
\* the options of the file are (so before rebuildValidationOrg is read or
\* coerced and before a rebuild group is inserted), and the executor is
\* not invoked and is handed nothing; no other loaded sequence fails
\* with that error.
C13_GroupsCheckedFirst ==
    \A c \in Calls :
        SequenceRead(c) =>
            /\ NoSequenceGroups =>
                  /\ calls[c].pc = "threw"
                  /\ calls[c].err = ERROR_INVALID_CONFIG
                  /\ ~calls[c].invoked
                  /\ calls[c].handed = NothingHanded
            /\ calls[c].err = ERROR_INVALID_CONFIG => NoSequenceGroups

C13_Witness ==
    \E c \in Calls :
        /\ SequenceRead(c)
        /\ calls[c].op = "validateDemo"
        /\ calls[c].err = ERROR_INVALID_CONFIG
        /\ seqFile.groupsIsArray
        /\ Len(seqFile.sequenceGroups) = 0
        /\ ~seqFile.hasOptions

(***************************************************************************)
(* Properties of setIntent and of the in-progress flag.                    *)
(***************************************************************************)
\* C16: the execution intent is written once: a step taken by validateDemo
\* or deployDemo, or by the code after one of their suspension points, in a
\* state where the intent is no longer NOT_SPECIFIED leaves the intent as
\* it is.
C16_IntentWrittenOnce ==
    [][executionIntent # NOT_SPECIFIED => executionIntent' = executionIntent]_vars

C16_Witness ==
    /\ executionIntent = DEPLOY_DEMO
    /\ calls[1].op = "deployDemo"
    /\ calls[1].ranIntent = DEPLOY_DEMO
    /\ calls[2].op = "validateDemo"
    /\ calls[2].pc = "threw"
    /\ calls[2].err = ERROR_SEQUENCE_RUNNING

\* C17: invoked while no sequence is in progress, setIntent fails with
\* ERROR_INTENT_NOT_IMPLEMENTED for HEALTH_CHECK and for REPAIR_PROJECT,
\* fails with ERROR_UNKNOWN_INTENT for a value outside the five enumerated
\* intents, and completes without an error for VALIDATE_DEMO and for
\* DEPLOY_DEMO.
C17_IntentSwitchOutcome ==
    (lastSetIntent.called /\ ~lastSetIntent.wasExecuting) =>
        /\ lastSetIntent.requested \in {HEALTH_CHECK, REPAIR_PROJECT} =>
              lastSetIntent.err = ERROR_INTENT_NOT_IMPLEMENTED
        /\ lastSetIntent.requested \notin EnumIntents =>
              lastSetIntent.err = ERROR_UNKNOWN_INTENT
        /\ lastSetIntent.requested \in {VALIDATE_DEMO, DEPLOY_DEMO} =>
              /\ lastSetIntent.err = NoError
              /\ executionIntent = lastSetIntent.requested
              /\ executingSequence

C17_Witness ==
    /\ lastSetIntent.called
    /\ ~lastSetIntent.wasExecuting
    /\ lastSetIntent.requested = REPAIR_PROJECT
    /\ lastSetIntent.err = ERROR_INTENT_NOT_IMPLEMENTED
    /\ \A c \in Calls : calls[c].pc = "idle"

\* C19: for VALIDATE_DEMO and for DEPLOY_DEMO alike, the sequence handed to
\* the executor has an options.rebuildValidationOrg that is a boolean: true
\* when the loaded value is absent or is not a boolean, and the loaded value
\* when that is a boolean; the other option is the loaded one.
C19_RebuildOptionIsBoolean ==
    \A c \in Invoked :
        LET loaded == seqFile.options
            handed == calls[c].handed.options
        IN  /\ calls[c].execIntent \in {VALIDATE_DEMO, DEPLOY_DEMO}
            /\ handed.rebuildValidationOrg \in {JsTrue, JsFalse}
            /\ handed.rebuildValidationOrg =
                  (IF loaded.rebuildValidationOrg \in {JsTrue, JsFalse}
                   THEN loaded.rebuildValidationOrg ELSE JsTrue)
            /\ handed.scratchDefJson = loaded.scratchDefJson

C19_Witness ==
    /\ seqFile.options.rebuildValidationOrg = JsStr("yes")
    /\ seqFile.options.scratchDefJson = JsStr("demo-scratch-def.json")
    /\ calls[1].invoked
    /\ calls[1].execIntent = DEPLOY_DEMO
    /\ calls[1].handed.options.rebuildValidationOrg = JsTrue

\* The calls whose setIntent found the in-progress flag clear.
PassedGuard == {c \in Calls : calls[c].passedGuard}

\* C20: in every state between two operations and at every suspension
\* point of one, the in-progress flag is true exactly when the intent is
\* not NOT_SPECIFIED (both start clear); the test and the assignment of
\* the flag happen in one step, so of all the calls made on the instance,
\* overlapping or not, at most one finds the flag clear.
C20_FlagSetWithIntent ==
    /\ executingSequence <=> (executionIntent # NOT_SPECIFIED)
    /\ Cardinality(PassedGuard) <= 1
    /\ (PassedGuard = {} => ~executingSequence)

C20_Witness ==
    /\ executingSequence
    /\ executionIntent = VALIDATE_DEMO
    /\ calls[1].pc = "loading"
    /\ calls[1].passedGuard
    /\ calls[2].op = "validateDemo"
    /\ calls[2].err = ERROR_SEQUENCE_RUNNING
    /\ ~calls[2].passedGuard

(***************************************************************************)
(* Properties of the argument validation of the repository helpers.        *)
(***************************************************************************)
\* The class of the error object each message is thrown with.
ErrorClass(err) ==
    IF err \in {ERROR_UNEXPECTED_TYPE, ERROR_INVALID_TYPE, NullDereference}
    THEN "TypeError" ELSE "Error"

\* The running or last helper call was given a required parameter that is
\* not a string or is the empty string.
BadRequiredParameter ==
    CASE git.fn = "gitClone"           -> NotAString(git.uri) \/ NotADirectory(git.dir)
      [] git.fn = "gitInit"            -> NotADirectory(git.dir)
      [] git.fn = "gitAddAndCommit"    -> NotADirectory(git.dir) \/ NotAString(git.msg)
      [] git.fn = "gitRemoteAddOrigin" -> NotADirectory(git.dir) \/ NotAString(git.uri)
      [] OTHER                         -> FALSE

\* C12: each of gitClone, gitInit, gitAddAndCommit and gitRemoteAddOrigin,
\* given a required parameter that is not a string or is the empty string,
\* fails with a TypeError and performs no shell operation.
C12_BadParametersRejected ==
    BadRequiredParameter =>
        /\ git.pc = "threw"
        /\ ErrorClass(git.err) = "TypeError"
        /\ git.log = <<>>

(***************************************************************************)
(* Properties of getRepoNameFromUri.                                       *)
(***************************************************************************)
DotGit == <<".", "g", "i", "t">>

\* The text ends in "/.git": no character between the slash and the extension.
EndsInBareDotGit(str) ==
    Len(str) >= 5 /\ SubSeq(str, Len(str) - 4, Len(str)) = <<"/">> \o DotGit

\* The names for which the text ends in "/<name>.git", <name> being one or
\* more word characters and hyphens.
TrailingNames(str) ==
    { SubSeq(str, i + 1, Len(str) - 4) : i \in
        { i \in 1..(Len(str) - 5) :
            /\ str[i] = "/"
            /\ SubSeq(str, Len(str) - 3, Len(str)) = DotGit
            /\ \A k \in (i + 1)..(Len(str) - 4) : NameChar(str[k]) } }

\* C15: getRepoNameFromUri fails with ERROR_UNREADABLE_REPO_NAME for a URI
\* that ends in "/.git", and for a URI that ends in "/<name>.git" it
\* returns exactly <name>.
C15_RepoNameOfUri ==
    (git.fn = "getRepoNameFromUri" /\ TypeOf(git.text) = "string") =>
        /\ EndsInBareDotGit(git.text.v) =>
              (git.pc = "threw" /\ git.err = ERROR_UNREADABLE_REPO_NAME)
        /\ \A name \in TrailingNames(git.text.v) :
              (git.pc = "returned" /\ git.value = name)

(***************************************************************************)
(* Properties of resolve.                                                  *)
(***************************************************************************)
\* The required settings that the configured project leaves out or empty.
MissingFields ==
    {f \in FieldNames : resolveCall.configured[f] \in {JsUndefined, JsStr("")}}

ReportedKeys == {resolveCall.keys[i] : i \in 1..Len(resolveCall.keys)}

ExpectedDemoConfig ==
    IF resolveCall.override \in {JsUndefined, JsStr("")}
    THEN resolveCall.configured["demoConfig"]
    ELSE resolveCall.override

\* C18: in the instance resolve returns, demoConfig is the override when a
\* non-empty one was given and the configured value otherwise; every other
\* project-level setting and the local configuration are as configured;
\* and the file deployDemo asks readConfigFile for is that demoConfig.
C18_OverrideReplacesDemoConfigOnly ==
    resolveCall.pc = "resolved" =>
        /\ projectConfig["demoConfig"] = ExpectedDemoConfig
        /\ \A f \in FieldNames \ {"demoConfig"} : projectConfig[f] = resolveCall.configured[f]
        /\ localConfig = resolveCall.localFile
        /\ \A c \in Admitted : calls[c].configFile = ExpectedDemoConfig

C18_Witness ==
    /\ resolveCall.pc = "resolved"
    /\ resolveCall.override = JsStr("alt-config.json")
    /\ resolveCall.configured["demoConfig"] = JsStr("demo-config.json")
    /\ projectConfig["demoConfig"] = JsStr("alt-config.json")
    /\ calls[1].op = "deployDemo"
    /\ calls[1].pc = "executing"
    /\ calls[1].configFile = JsStr("alt-config.json")

(***************************************************************************)
(* Properties of the shell operations of the repository helpers.           *)
(***************************************************************************)
\* The git commands in the log of the running or last helper call.
GitCommands == {i \in 1..Len(git.log) : git.log[i].op \notin {"cd", "mkdir -p"}}

\* C21: every git command of gitClone, gitInit, gitAddAndCommit and
\* gitRemoteAddOrigin is issued after a shell.cd of the same call into the
\* target of that call has succeeded, with nothing but git commands of
\* that call between the two; so the command runs with the target of its
\* own call as working directory, wherever an earlier call left the shell.
C21_CommandRunsInOwnTarget ==
    \A i \in GitCommands :
        /\ git.log[i].cwd = git.target
        /\ \E j \in 1..(i - 1) :
              /\ git.log[j].op = "cd"
              /\ git.log[j].ok
              /\ git.log[j].arg = git.target
              /\ \A k \in (j + 1)..(i - 1) : k \in GitCommands

C21_Witness ==
    /\ git.fn = "gitRemoteAddOrigin"
    /\ Len(git.log) = 2
    /\ git.log[1].cwd = <<"w", "a">>
    /\ git.target = <<"w", "a", "sub">>
    /\ git.log[2].op = "git remote add origin"
    /\ git.log[2].cwd = <<"w", "a", "sub">>

AddCommands    == {i \in 1..Len(git.log) : git.log[i].op = "git add -A"}
CommitCommands == {i \in 1..Len(git.log) : git.log[i].op = "git commit -m"}

\* C22: gitAddAndCommit issues `git add -A` at most once and only after its
\* shell.cd succeeded, and `git commit` at most once and only after that
\* `git add -A` succeeded; it returns only after the three succeeded, and a
\* shell operation that fails is its last: the call ends with that error.
C22_AddBeforeCommit ==
    git.fn = "gitAddAndCommit" =>
        /\ Cardinality(AddCommands) <= 1
        /\ Cardinality(CommitCommands) <= 1
        /\ \A i \in AddCommands : i = 2 /\ git.log[1].op = "cd" /\ git.log[1].ok
        /\ \A i \in CommitCommands : i = 3 /\ 2 \in AddCommands /\ git.log[2].ok
        /\ \A i \in 1..Len(git.log) :
              ~git.log[i].ok =>
                  /\ i = Len(git.log)
                  /\ git.pc = "threw"
                  /\ git.err = ShellError
                  /\ (i < 3 => CommitCommands = {})
        /\ git.pc = "returned" =>
              (Len(git.log) = 3 /\ \A i \in 1..3 : git.log[i].ok)
        /\ (git.pc = "hexec" /\ Len(git.log) = 1) => git.log[1].ok

C22_Witness ==
    /\ git.fn = "gitAddAndCommit"
    /\ git.pc = "threw"
    /\ git.err = ShellError
    /\ Len(git.log) = 2
    /\ git.log[2].op = "git add -A"
    /\ ~git.log[2].ok

(***************************************************************************)
(* Properties of an instance over all the calls made on it.                *)
(***************************************************************************)
\* C23: the in-progress flag is never cleared: it is true in every state in
\* which some call has passed the guard, whether that call is suspended,
\* has returned or has failed after the guard; and a validateDemo call
\* made after a call that passed the guard fails with
\* ERROR_SEQUENCE_RUNNING and does not reach the executor.
C23_FlagNeverCleared ==
    /\ PassedGuard # {} => executingSequence
    /\ \A c \in Calls, d \in PassedGuard :
          (d < c /\ calls[c].op = "validateDemo") =>
              /\ calls[c].pc = "threw"
              /\ calls[c].err = ERROR_SEQUENCE_RUNNING
              /\ ~calls[c].admitted
              /\ ~calls[c].invoked

C23_Witness ==
    /\ calls[1].passedGuard
    /\ calls[1].pc = "threw"
    /\ calls[1].err = ExecuteError
    /\ executingSequence
    /\ calls[2].op = "validateDemo"
    /\ calls[2].err = ERROR_SEQUENCE_RUNNING

\* C24: with resolve, validateDemo and deployDemo as the only operations,
\* the intent is always NOT_SPECIFIED, VALIDATE_DEMO or DEPLOY_DEMO, and
\* no call fails with ERROR_INVALID_INTENT, ERROR_INTENT_NOT_IMPLEMENTED
\* or ERROR_UNKNOWN_INTENT.
C24_IntentStaysInPublicRange ==
    /\ executionIntent \in {NOT_SPECIFIED, VALIDATE_DEMO, DEPLOY_DEMO}
    /\ (resolveCall.pc # "resolved" => executionIntent = NOT_SPECIFIED)
    /\ \A c \in Calls :
          /\ calls[c].err \notin {ERROR_INVALID_INTENT, ERROR_INTENT_NOT_IMPLEMENTED,
                                  ERROR_UNKNOWN_INTENT}
          /\ calls[c].ranIntent \in {NOT_SPECIFIED, VALIDATE_DEMO, DEPLOY_DEMO}
    /\ lastSetIntent.err \notin {ERROR_INTENT_NOT_IMPLEMENTED, ERROR_UNKNOWN_INTENT}

C24_Witness ==
    /\ resolveCall.pc = "resolved"
    /\ executionIntent = DEPLOY_DEMO
    /\ calls[1].op = "deployDemo"
    /\ calls[1].pc = "returned"
    /\ calls[2].op = "deployDemo"
    /\ calls[2].pc = "executing"
    /\ calls[2].ranIntent = DEPLOY_DEMO

\* C25: resolve tests for the local configuration file first, then checks
\* the project configuration, then applies the override: with no local
\* file it fails with ERROR_CONFIG_NOT_FOUND and reports no key, also for
\* an incomplete project; and with the file found, a project whose
\* demoConfig is missing or empty fails with ERROR_INVALID_CONFIG listing
\* demoConfig, also when a non-empty override is given.
C25_ResolveCheckOrder ==
    resolveCall.pc # "none" =>
        /\ ~resolveCall.localFileExists =>
              /\ resolveCall.pc = "threw"
              /\ resolveCall.err = ERROR_CONFIG_NOT_FOUND
              /\ resolveCall.keys = <<>>
        /\ (resolveCall.localFileExists /\ "demoConfig" \in MissingFields) =>
              /\ resolveCall.pc = "threw"
              /\ resolveCall.err = ERROR_INVALID_CONFIG
              /\ "demoConfig" \in ReportedKeys
        /\ resolveCall.pc = "threw" => projectConfig = NoProjectConfig

C25_Witness ==
    /\ resolveCall.pc = "threw"
    /\ resolveCall.err = ERROR_CONFIG_NOT_FOUND
    /\ ~resolveCall.localFileExists
    /\ resolveCall.configured["demoConfig"] = JsStr("")
    /\ resolveCall.configured["partnerAlias"] = JsUndefined
    /\ resolveCall.override = JsStr("alt-config.json")

=============================================================================
